---- MODULE Spec2Model ----
(***************************************************************************)
(* A model of package dirtree: the Dirent node (name, parent, children)    *)
(* and its operations New, Add, Make, Unlink, Move, Rename and Tree.       *)
(* Nodes are numbered in allocation order; node 0 is Go's nil pointer.     *)
(***************************************************************************)
EXTENDS Integers, Sequences, FiniteSets, TLC

\* ------------------------------------------------------------------ bounds
MaxNodes == 3      \* Dirents allocated in one run of Spec
MaxBatch == 2      \* longest argument list given to Make
MaxCalls == 4      \* calls made in one run of Spec
MaxTreeNodes == 5  \* Dirents allocated in one run of SpecTree
MaxTreeCalls == 5  \* calls made in one run of SpecTree
MaxSortNodes == 3  \* Dirents in one run of SpecSort
MaxFindNodes == 6  \* Dirents in one run of SpecFind
MaxFindCalls == 5  \* calls of Add made in one run of SpecFind

\* The names the callers use, in Go's (bytewise) string order.
NameOrder == <<"", ".", "/", "a", "b", "c">>
Names == {NameOrder[i] : i \in 1..Len(NameOrder)}
\* The names the callers of Spec use (SpecTree uses all of Names).
OpNames == {"", "/", "a", "b"}
\* The names given to New in Spec, and the valid names given to Make.
NewNames == {"", "a"}
\* The names given to New and to Add in SpecTree.
TreeRootNames == {"", "b"}
TreeNames == {"a", "b", "c"}
MakeNames == {"", "a", "b"}
Nil == 0

\* The values an operation hands back.
RetNil == "nil"
ErrInvalidName == "invalid name"
ErrExists == "entry already exists"
ErrUnnamed == "cannot move unnamed directory"
ErrExistsAtDst == "entry already exists at destination"
ErrNonRoot == "non-root directory must have name"
ErrAnother == "another entry with requested name exists in parent"
RetTrue == "true"
RetFalse == "false"
Panic == "panic"

\* ------------------------------------------------------------------- state
VARIABLES
  name,      \* name[n]: the name field of Dirent n
  parent,    \* parent[n]: the parent field of Dirent n, Nil for none
  children,  \* children[n]: the children map of Dirent n
  op,        \* the last call: its kind, receiver, arguments and result
  pre,       \* the three fields of every Dirent before the last call
  calls      \* the number of calls made so far
vars == <<name, parent, children, op, pre, calls>>

Nodes == 1..Len(name)

\* A Go map[string]*Dirent: made is FALSE for the nil map, m[k] is Nil for a
\* key the map does not hold.
NilMap == [made |-> FALSE, m |-> [k \in Names |-> Nil]]

AllNodes(h) == 1..Len(h.name)

\* The three fields of every Dirent, as one value.
Heap == [name |-> name, parent |-> parent, children |-> children]

\* _, found := h.children[d][k]
Found(h, d, k) == h.children[d].m[k] # Nil

\* len(d.children)
Size(h, d) == Cardinality({k \in Names : h.children[d].m[k] # Nil})

\* d.Child(k)
Child(h, d, k) == h.children[d].m[k]

\* &Dirent{name: nm, parent: p}: the heap with one more Dirent.
Alloc(h, nm, p) ==
  [name |-> Append(h.name, nm),
   parent |-> Append(h.parent, p),
   children |-> Append(h.children, NilMap)]

\* d.children[k] = c, on a map that was made.
Store(h, d, k, c) ==
  [h EXCEPT !.children[d] = [made |-> TRUE, m |-> [@.m EXCEPT ![k] = c]]]

Call(kind, d, dst, names, ret, node) ==
  [kind |-> kind, d |-> d, dst |-> dst, names |-> names, ret |-> ret,
   node |-> node, out |-> ""]

\* A call that hands back a string.
CallOut(kind, d, ret, out) ==
  [kind |-> kind, d |-> d, dst |-> Nil, names |-> <<>>, ret |-> ret,
   node |-> Nil, out |-> out]

\* A query and what it hands back: a list (of names, of nodes visited, or
\* of lines written).
CallList(kind, d, names, ret, out, list) ==
  [kind |-> kind, d |-> d, dst |-> Nil, names |-> names, ret |-> ret,
   node |-> Nil, out |-> out, list |-> list]

\* A panic that nothing recovers ends the program.
Running == op.ret # Panic

\* The caller makes one more call, of at most max.
Calling(max) ==
  /\ Running
  /\ calls < max
  /\ calls' = calls + 1
  /\ pre' = Heap

SetHeap(h) ==
  /\ name' = h.name
  /\ parent' = h.parent
  /\ children' = h.children

\* The Dirents a caller can hold: all but those a Make call dropped from the
\* map before returning (they have a parent that does not hold them).
Held(h) ==
  {n \in 1..Len(h.name) :
     \/ h.parent[n] = Nil
     \/ \E k \in Names : h.children[h.parent[n]].m[k] = n}

\* -------------------------------------------------------------- operations
Init ==
  /\ name = <<>>
  /\ parent = <<>>
  /\ children = <<>>
  /\ op = Call("Init", Nil, Nil, <<>>, RetNil, Nil)
  /\ pre = Heap
  /\ calls = 0

\* New(nm)
NewOn(h, nm) == Alloc(h, nm, Nil)

New(nm) ==
  /\ Calling(MaxCalls)
  /\ Len(name) < MaxNodes
  /\ SetHeap(NewOn(Heap, nm))
  /\ op' = Call("New", Nil, Nil, <<nm>>, RetNil, Len(name) + 1)

\* Add without the look-up of the name in the map.
AddOverwrites(h, d, nm) ==
  IF nm = "" \/ nm = "/" THEN [h |-> h, ret |-> ErrInvalidName, node |-> Nil]
  ELSE LET new == Len(h.name) + 1 IN
       [h |-> Store(Alloc(h, nm, d), d, nm, new), ret |-> RetNil, node |-> new]

\* d.Add(nm): the result and the heap after the call.
AddOn(h, d, nm) ==
  IF nm = "" \/ nm = "/" THEN [h |-> h, ret |-> ErrInvalidName, node |-> Nil]
  ELSE IF Found(h, d, nm) THEN [h |-> h, ret |-> ErrExists, node |-> Nil]
  ELSE LET new == Len(h.name) + 1 IN
       [h |-> Store(Alloc(h, nm, d), d, nm, new), ret |-> RetNil, node |-> new]

Add(d, nm, maxNodes, maxCalls) ==
  /\ Calling(maxCalls)
  /\ LET r == AddOn(Heap, d, nm) IN
     /\ Len(r.h.name) <= maxNodes
     /\ SetHeap(r.h)
     /\ op' = Call("Add", d, Nil, <<nm>>, r.ret, r.node)

\* The batches of names a caller gives to Make.
Batches == UNION {[1..n -> MakeNames] : n \in 0..MaxBatch}

\* The second loop of Make: one new Dirent per name from position i on, each
\* stored under its name (a later one replaces an earlier one of that name).
RECURSIVE MakeLoop(_, _, _, _)
MakeLoop(h, d, names, i) ==
  IF i > Len(names) THEN h
  ELSE LET new == Len(h.name) + 1 IN
       MakeLoop(Store(Alloc(h, names[i], d), d, names[i], new), d, names, i + 1)

\* The first loop of Make: the positions whose name is refused.
MakeRefused(h, d, names) ==
  {i \in 1..Len(names) :
     names[i] = "" \/ names[i] = "/" \/ Found(h, d, names[i])}

\* Make with one loop only, which checks a name and creates it before it
\* looks at the next name.
RECURSIVE MakeCheckAndCreate(_, _, _, _)
MakeCheckAndCreate(h, d, names, i) ==
  IF i > Len(names) THEN [h |-> h, ret |-> RetNil]
  ELSE IF names[i] = "" \/ names[i] = "/"
       THEN [h |-> h, ret |-> ErrInvalidName]
  ELSE IF Found(h, d, names[i]) THEN [h |-> h, ret |-> ErrExists]
  ELSE MakeCheckAndCreate(
         Store(Alloc(h, names[i], d), d, names[i], Len(h.name) + 1),
         d, names, i + 1)

MakeOneLoop(h, d, names) ==
  MakeCheckAndCreate([h EXCEPT !.children[d].made = TRUE], d, names, 1)

\* d.Make(names...)
MakeOn(h, d, names) ==
  LET bad == MakeRefused(h, d, names) IN
  IF bad # {}
  THEN LET i == CHOOSE j \in bad : \A k \in bad : j <= k IN
       [h |-> h,
        ret |-> IF names[i] = "" \/ names[i] = "/" THEN ErrInvalidName
                ELSE ErrExists]
  ELSE [h |-> MakeLoop([h EXCEPT !.children[d].made = TRUE], d, names, 1),
        ret |-> RetNil]

Make(d, names) ==
  /\ Calling(MaxCalls)
  /\ LET r == MakeOn(Heap, d, names) IN
     /\ Len(r.h.name) <= MaxNodes
     /\ SetHeap(r.h)
     /\ op' = Call("Make", d, Nil, names, r.ret, Nil)

\* delete(p.children, k)
Delete(h, p, k) == [h EXCEPT !.children[p].m[k] = Nil]

\* Unlink without the delete.
UnlinkKeepsEntry(h, d) ==
  IF h.parent[d] = Nil THEN [h |-> h, ret |-> RetFalse]
  ELSE LET h1 == [h EXCEPT !.parent[d] = Nil]
           ch == h1.children[h.parent[d]].m[h1.name[d]]
       IN IF ch = Nil THEN [h |-> h1, ret |-> RetFalse]
          ELSE IF ch # d THEN [h |-> h1, ret |-> Panic]
          ELSE [h |-> h1, ret |-> RetTrue]

\* d.Unlink()
UnlinkOn(h, d) ==
  IF h.parent[d] = Nil THEN [h |-> h, ret |-> RetFalse]
  ELSE LET p == h.parent[d]
           h1 == [h EXCEPT !.parent[d] = Nil]
           ch == h1.children[p].m[h1.name[d]]
       IN IF ch = Nil THEN [h |-> h1, ret |-> RetFalse]
          ELSE IF ch # d THEN [h |-> h1, ret |-> Panic]
          ELSE [h |-> Delete(h1, p, h1.name[d]), ret |-> RetTrue]

Unlink(d) ==
  /\ Calling(MaxCalls)
  /\ LET r == UnlinkOn(Heap, d) IN
     /\ SetHeap(r.h)
     /\ op' = Call("Unlink", d, Nil, <<>>, r.ret, Nil)

\* Move that unlinks the receiver before it looks at the destination.
MoveUnlinksFirst(h, d, dst) ==
  IF h.name[d] = "" THEN [h |-> h, ret |-> ErrUnnamed]
  ELSE LET u == UnlinkOn(h, d) IN
       IF u.ret = Panic THEN [h |-> u.h, ret |-> Panic]
       ELSE IF Found(u.h, dst, h.name[d])
            THEN [h |-> u.h, ret |-> ErrExistsAtDst]
       ELSE IF ~u.h.children[dst].made THEN [h |-> u.h, ret |-> Panic]
       ELSE [h |-> [Store(u.h, dst, u.h.name[d], d) EXCEPT !.parent[d] = dst],
             ret |-> RetNil]

\* d.Move(dst)
MoveOn(h, d, dst) ==
  IF h.name[d] = "" THEN [h |-> h, ret |-> ErrUnnamed]
  ELSE IF Found(h, dst, h.name[d]) THEN [h |-> h, ret |-> ErrExistsAtDst]
  ELSE LET u == UnlinkOn(h, d) IN
       IF u.ret = Panic THEN [h |-> u.h, ret |-> Panic]
       \* an assignment to an entry of a nil map panics
       ELSE IF ~u.h.children[dst].made THEN [h |-> u.h, ret |-> Panic]
       ELSE [h |-> [Store(u.h, dst, u.h.name[d], d) EXCEPT !.parent[d] = dst],
             ret |-> RetNil]

Move(d, dst) ==
  /\ Calling(MaxCalls)
  /\ LET r == MoveOn(Heap, d, dst) IN
     /\ SetHeap(r.h)
     /\ op' = Call("Move", d, dst, <<>>, r.ret, Nil)

\* d.Rename(nm)
RenameOn(h, d, nm) ==
  LET n == IF nm = "/" THEN "" ELSE nm IN
  IF h.parent[d] # Nil /\ n = "" THEN [h |-> h, ret |-> ErrNonRoot]
  ELSE IF h.parent[d] # Nil /\ Found(h, h.parent[d], n)
       THEN [h |-> h, ret |-> ErrAnother]
  ELSE [h |-> [h EXCEPT !.name[d] = n], ret |-> RetNil]

Rename(d, nm) ==
  /\ Calling(MaxCalls)
  /\ LET r == RenameOn(Heap, d, nm) IN
     /\ SetHeap(r.h)
     /\ op' = Call("Rename", d, Nil, <<nm>>, r.ret, Nil)

\* ------------------------------------------------------------------ Tree
linkPfx == "|-- "
contPfx == "|   "
endlPfx == "+-- "  \* "+" stands for the backquote, which no TLA+ string holds
blnkPfx == "    "

\* d.String()
String(h, d) == IF h.name[d] = "" THEN "/" ELSE h.name[d]

\* The place of a string in Go's order of strings.
Rank(s) == CHOOSE i \in 1..Len(NameOrder) : NameOrder[i] = s

\* Less on the name fields instead of the display names.
LessByName(h, a, b) == Rank(h.name[a]) < Rank(h.name[b])

\* nodeSlice.Less, on two nodes
Less(h, a, b) == Rank(String(h, a)) < Rank(String(h, b))

\* sort.Sort is not stable: nodes that Less does not tell apart end in any
\* order. A tie order is a sequence of all nodes; it decides among them.
Place(tie, n) == CHOOSE i \in 1..Len(tie) : tie[i] = n

HasTies(h) ==
  \E p \in AllNodes(h) : \E k1, k2 \in Names :
    LET c1 == h.children[p].m[k1]
        c2 == h.children[p].m[k2]
    IN c1 # Nil /\ c2 # Nil /\ c1 # c2 /\ String(h, c1) = String(h, c2)

Identity(h) == [i \in AllNodes(h) |-> i]

TieOrders(h) ==
  IF HasTies(h)
  THEN {t \in [AllNodes(h) -> AllNodes(h)] :
          \A i, j \in AllNodes(h) : i # j => t[i] # t[j]}
  ELSE {Identity(h)}

\* d.Children() followed by sort.Sort(sort.Reverse(nodeSlice(...))): the
\* values of the keys K of d's map, from the greatest name down.
RECURSIVE SortReverse(_, _, _, _)
SortReverse(h, d, K, tie) ==
  IF K = {} THEN <<>>
  ELSE LET m == h.children[d].m
           first == CHOOSE k \in K : \A k2 \in K :
                      \/ Less(h, m[k2], m[k])
                      \/ /\ ~Less(h, m[k], m[k2])
                         /\ Place(tie, m[k]) <= Place(tie, m[k2])
       IN <<m[first]>> \o SortReverse(h, d, K \ {first}, tie)

Keys(h, d) == {k \in Names : h.children[d].m[k] # Nil}

\* strings.Join(ss, sep)
RECURSIVE Join(_, _)
Join(ss, sep) ==
  IF Len(ss) = 0 THEN ""
  ELSE IF Len(ss) = 1 THEN ss[1]
  ELSE ss[1] \o sep \o Join(Tail(ss), sep)

Front(s) == SubSeq(s, 1, Len(s) - 1)

\* The loop of Tree, from the loop state st, for at most fuel rounds. Nil in
\* st.nodes is the sentinel that ends a level. st.emits keeps, for each line
\* appended to ss, the node, the pfx written and the segment appended to ps
\* ("" for a node without children).
RECURSIVE TreeLoop(_, _, _, _)
TreeLoop(h, tie, st, fuel) ==
  LET n == Len(st.nodes) IN
  IF n = 0 THEN [st EXCEPT !.done = TRUE]
  ELSE IF fuel = 0 THEN st
  ELSE LET cur == st.nodes[n] IN
       IF cur = Nil
       THEN TreeLoop(h, tie,
                     [st EXCEPT !.ps = Front(st.ps),
                                !.ppfx = Join(Front(st.ps), ""),
                                !.nodes = Front(st.nodes)],
                     fuel - 1)
       ELSE LET pfx == IF n = 1 \/ st.nodes[n - 1] = Nil THEN endlPfx
                       ELSE st.pfx
                ss == Append(st.ss, st.ppfx \o pfx \o h.name[cur])
                seg == IF Size(h, cur) = 0 THEN ""
                       ELSE IF pfx = endlPfx THEN blnkPfx ELSE contPfx
                emits == Append(st.emits,
                                [node |-> cur, pfx |-> pfx, seg |-> seg])
            IN IF Size(h, cur) > 0
               THEN LET ps == Append(st.ps, IF pfx = endlPfx THEN blnkPfx
                                             ELSE contPfx)
                    IN TreeLoop(h, tie,
                                [st EXCEPT
                                   !.ss = ss,
                                   !.emits = emits,
                                   !.ps = ps,
                                   !.ppfx = Join(ps, ""),
                                   !.nodes = [st.nodes EXCEPT ![n] = Nil]
                                             \o SortReverse(h, cur,
                                                            Keys(h, cur), tie),
                                   !.pfx = linkPfx],
                                fuel - 1)
               ELSE TreeLoop(h, tie,
                             [st EXCEPT !.ss = ss,
                                        !.emits = emits,
                                        !.pfx = pfx,
                                        !.nodes = Front(st.nodes)],
                             fuel - 1)

\* The rounds the loop of Tree needs on a forest: two for each node.
TreeFuel(h) == 2 * Len(h.name) + 2
Diverges == "diverges"

\* d.Tree()
TreeOn(h, d, tie) ==
  LET st == TreeLoop(h, tie,
                     [ss |-> <<h.name[d]>>,
                      nodes |-> SortReverse(h, d, Keys(h, d), tie),
                      pfx |-> linkPfx, ppfx |-> "", ps |-> <<>>,
                      done |-> FALSE, emits |-> <<>>],
                     TreeFuel(h))
  IN IF st.done
     THEN [ret |-> RetNil, out |-> Join(st.ss, "\n"), emits |-> st.emits]
     ELSE [ret |-> Diverges, out |-> "", emits |-> <<>>]

Tree(d, tie) ==
  /\ Calling(MaxTreeCalls)
  /\ LET r == TreeOn(Heap, d, tie) IN
     op' = CallList("Tree", d, <<>>, r.ret, r.out, r.emits)
  /\ UNCHANGED <<name, parent, children>>

Next ==
  \/ \E nm \in NewNames : New(nm)
  \/ \E d \in Held(Heap), nm \in OpNames : Add(d, nm, MaxNodes, MaxCalls)
  \/ \E d \in Held(Heap), names \in Batches : Make(d, names)
  \/ \E d \in Held(Heap) : Unlink(d)
  \/ \E d \in Held(Heap), dst \in Held(Heap) : Move(d, dst)
  \/ \E d \in Held(Heap), nm \in OpNames : Rename(d, nm)

Spec == Init /\ [][Next]_vars

\* Trees of one root, grown by Add, and rendered by Tree.
InitTree ==
  \E nm \in TreeRootNames :
    /\ name = <<nm>>
    /\ parent = <<Nil>>
    /\ children = <<NilMap>>
    /\ op = Call("New", Nil, Nil, <<nm>>, RetNil, 1)
    /\ pre = [name |-> <<>>, parent |-> <<>>, children |-> <<>>]
    /\ calls = 0

NextTree ==
  \/ \E d \in Held(Heap), nm \in TreeNames :
       Add(d, nm, MaxTreeNodes, MaxTreeCalls)
  \/ \E d \in Held(Heap), tie \in TieOrders(Heap) : Tree(d, tie)

SpecTree == InitTree /\ [][NextTree]_vars

\* ---------------------------------------------------- the tree invariants
\* The nodes whose children map holds n, under any key.
Holders(h, n) ==
  {p \in AllNodes(h) : \E k \in Names : h.children[p].m[k] = n}

\* The keys under which p's children map holds n.
KeysOf(h, p, n) == {k \in Names : h.children[p].m[k] = n}

\* I1: every node is held by its parent under its own name.
I1(h) ==
  \A n \in Held(h) :
    h.parent[n] # Nil => h.children[h.parent[n]].m[h.name[n]] = n

\* I2: no two distinct children of one node share a name.
I2(h) ==
  \A p \in AllNodes(h) : \A k1, k2 \in Names :
    LET c1 == h.children[p].m[k1]
        c2 == h.children[p].m[k2]
    IN (c1 # Nil /\ c2 # Nil /\ c1 # c2) => h.name[c1] # h.name[c2]

\* I3: only a root has the empty name.
I3(h) == \A n \in Held(h) : h.name[n] = "" => h.parent[n] = Nil

\* Following parent references from n reaches a root within fuel steps.
RECURSIVE RootWithin(_, _, _)
RootWithin(h, n, fuel) ==
  IF n = Nil THEN TRUE
  ELSE IF fuel = 0 THEN FALSE
  ELSE RootWithin(h, h.parent[n], fuel - 1)

Acyclic(h) == \A n \in AllNodes(h) : RootWithin(h, n, Len(h.name))

\* Every node is held by at most one node.
OneHolder(h) == \A n \in AllNodes(h) : Cardinality(Holders(h, n)) <= 1

\* I4: a forest, and the only node that holds n, under one key, is its parent.
I4(h) ==
  /\ Acyclic(h)
  /\ OneHolder(h)
  /\ \A n \in AllNodes(h) : \A p \in Holders(h, n) :
       h.parent[n] = p /\ Cardinality(KeysOf(h, p, n)) = 1

WellFormed(h) == I1(h) /\ I2(h) /\ I3(h) /\ I4(h)

\* The proper descendants of n, through the children maps.
RECURSIVE DescWithin(_, _, _)
DescWithin(h, S, fuel) ==
  LET T == S \cup {c \in AllNodes(h) : \E p \in S : p \in Holders(h, c)} IN
  IF fuel = 0 \/ T = S THEN S ELSE DescWithin(h, T, fuel - 1)

Descendants(h, n) ==
  DescWithin(h, {c \in AllNodes(h) : n \in Holders(h, c)}, Len(h.name))

\* The fields of node n are the same in g and h.
SameNode(g, h, n) ==
  /\ g.name[n] = h.name[n]
  /\ g.parent[n] = h.parent[n]
  /\ g.children[n] = h.children[n]

Returned == op.ret # Panic
IsError(ret) ==
  ret \in {ErrInvalidName, ErrExists, ErrUnnamed, ErrExistsAtDst, ErrNonRoot,
           ErrAnother}

\* ------------------------------------------------------------------ claims

\* C1: after every call that returns, every node that has a parent is held by
\* that parent under its own name; after a successful Rename(x) of a node with
\* a parent, the parent holds the node under x and no longer under the
\* previous name.
C1_ParentHoldsChild ==
  Returned =>
    /\ I1(Heap)
    /\ (op.kind = "Rename" /\ op.ret = RetNil /\ pre.parent[op.d] # Nil) =>
         /\ Child(Heap, pre.parent[op.d], op.names[1]) = op.d
         /\ (pre.name[op.d] # op.names[1] =>
               ~Found(Heap, pre.parent[op.d], pre.name[op.d]))

\* C2: after every call that returns, the structure is a forest: no node is
\* its own ancestor and every node is held by at most one node.
C2_Forest == Returned => (Acyclic(Heap) /\ OneHolder(Heap))

\* C3: d.Move(dst), for d with a name and dst without a child of that name,
\* returns no error; afterwards dst is the parent of d and holds it under its
\* name, the former parent holds it no more, and every descendant of d is as
\* before.
C3_MoveSucceeds ==
  (op.kind = "Move" /\ pre.name[op.d] # ""
     /\ ~Found(pre, op.dst, pre.name[op.d])) =>
    /\ op.ret = RetNil
    /\ parent[op.d] = op.dst
    /\ Child(Heap, op.dst, name[op.d]) = op.d
    /\ \A p \in Holders(pre, op.d) : p # op.dst => p \notin Holders(Heap, op.d)
    /\ \A n \in Descendants(pre, op.d) : SameNode(pre, Heap, n)

\* C5: Make with a valid name given twice returns an error and leaves the
\* children map of the receiver as it was.
C5_MakeDuplicate ==
  (op.kind = "Make"
     /\ \E i, j \in 1..Len(op.names) :
          i < j /\ op.names[i] = op.names[j] /\ op.names[i] \notin {"", "/"}) =>
    /\ IsError(op.ret)
    /\ children[op.d] = pre.children[op.d]

\* C6: Unlink of a node whose parent does not hold it under its name panics;
\* Unlink never returns false for a node with a parent, and never clears the
\* parent reference while the parent still holds the node.
C6_UnlinkFatal ==
  (op.kind = "Unlink" /\ pre.parent[op.d] # Nil) =>
    LET p == pre.parent[op.d] IN
    /\ Child(pre, p, pre.name[op.d]) # op.d => op.ret = Panic
    /\ op.ret # RetFalse
    /\ parent[op.d] # p => p \notin Holders(Heap, op.d)

\* C7: on a well-formed structure, Unlink of a root returns false and changes
\* nothing; Unlink of a node with a parent returns true, removes the entry of
\* the receiver from the map of the parent, clears the parent reference of
\* the receiver and changes nothing else.
C7_UnlinkFrame ==
  (op.kind = "Unlink" /\ WellFormed(pre)) =>
    LET d == op.d
        p == pre.parent[d]
    IN IF p = Nil
       THEN op.ret = RetFalse /\ Heap = pre
       ELSE /\ op.ret = RetTrue
            /\ name = pre.name
            /\ parent = [pre.parent EXCEPT ![d] = Nil]
            /\ children = [pre.children EXCEPT ![p].m[pre.name[d]] = Nil]
            /\ Child(pre, p, pre.name[d]) = d

\* Unlink returned true for a node that had a sibling.
C7_Witness ==
  /\ op.kind = "Unlink" /\ WellFormed(pre) /\ op.ret = RetTrue
  /\ Size(pre, pre.parent[op.d]) > 1

\* C8: Move returns an error exactly when the receiver has no name or the
\* destination has a child of its name, which is so for the current parent of
\* a node it holds under its name; and then no field of any node has changed.
C8_MoveError ==
  op.kind = "Move" =>
    LET refused ==
          pre.name[op.d] = "" \/ Found(pre, op.dst, pre.name[op.d])
    IN /\ IsError(op.ret) <=> refused
       /\ IsError(op.ret) => Heap = pre
       /\ (op.dst = pre.parent[op.d]
             /\ Child(pre, op.dst, pre.name[op.d]) = op.d) => IsError(op.ret)

\* Move of a node to its current parent returned an error.
C8_Witness ==
  /\ op.kind = "Move" /\ op.ret = ErrExistsAtDst
  /\ op.dst = pre.parent[op.d]
  /\ Size(pre, op.d) > 0

\* The positions of a batch whose name is empty, "/" or a key of the map.
Offending(h, d, names) ==
  {i \in 1..Len(names) :
     names[i] \in {"", "/"} \/ h.children[d].m[names[i]] # Nil}

\* C9: Make with an offending name anywhere in the batch returns an error and
\* leaves every node as it was; with none, each name of the batch is
\* afterwards a child with that name and the receiver as parent, and the
\* earlier children are still there.
C9_MakeAllOrNothing ==
  op.kind = "Make" =>
    IF Offending(pre, op.d, op.names) # {}
    THEN IsError(op.ret) /\ Heap = pre
    ELSE /\ op.ret = RetNil
         /\ \A i \in 1..Len(op.names) :
              LET c == Child(Heap, op.d, op.names[i]) IN
              c # Nil /\ name[c] = op.names[i] /\ parent[c] = op.d
         /\ \A k \in Names :
              Found(pre, op.d, k) => Child(Heap, op.d, k) = Child(pre, op.d, k)

\* Make was refused for its last name, after a name it could have created.
C9_Witness ==
  /\ op.kind = "Make" /\ Len(op.names) = 2
  /\ Offending(pre, op.d, op.names) = {2}
  /\ Found(pre, op.d, op.names[2])
  /\ IsError(op.ret)

\* C10: Rename(x) of a node with a parent returns the already-exists error
\* exactly when the parent holds another node under x, and the non-root-name
\* error exactly when x is "" or "/"; Rename of a root succeeds and stores ""
\* for "/"; a Rename that returns an error changes no name and no map.
C10_Rename ==
  op.kind = "Rename" =>
    LET d == op.d
        x == op.names[1]
        p == pre.parent[d]
    IN /\ p # Nil =>
            /\ op.ret = ErrNonRoot <=> x \in {"", "/"}
            /\ op.ret = ErrAnother <=>
                 (x \notin {"", "/"} /\ Child(pre, p, x) \notin {Nil, d})
       /\ p = Nil =>
            op.ret = RetNil /\ name[d] = (IF x = "/" THEN "" ELSE x)
       /\ IsError(op.ret) => Heap = pre

\* The children of n from the least name up.
RECURSIVE Ascending(_, _, _)
Ascending(h, n, K) ==
  IF K = {} THEN <<>>
  ELSE LET m == h.children[n].m
           least == CHOOSE k \in K : \A k2 \in K :
                      Rank(h.name[m[k]]) <= Rank(h.name[m[k2]])
       IN <<m[least]>> \o Ascending(h, n, K \ {least})

\* The lines of the reference rendering for the children kids[i..] of one
\* node and all below them; prefix is made of the segments of the ancestors.
RECURSIVE RefLines(_, _, _, _)
RefLines(h, kids, i, prefix) ==
  IF i > Len(kids) THEN <<>>
  ELSE LET c == kids[i]
           later == i < Len(kids)
       IN <<prefix \o (IF later THEN "|-- " ELSE "+-- ") \o h.name[c]>>
          \o RefLines(h, Ascending(h, c, Keys(h, c)), 1,
                      prefix \o (IF later THEN "|   " ELSE "    "))
          \o RefLines(h, kids, i + 1, prefix)

RefTree(h, d) ==
  Join(<<h.name[d]>> \o RefLines(h, Ascending(h, d, Keys(h, d)), 1, ""), "\n")

\* C4: on a well-formed tree, Tree() is the reference rendering: the name of
\* the receiver, then one line for each proper descendant in pre-order with
\* siblings in ascending name order, made of one segment for each ancestor
\* below the receiver, the connector and the name.
C4_TreeRendering ==
  (op.kind = "Tree" /\ WellFormed(Heap)) =>
    op.ret = RetNil /\ op.out = RefTree(Heap, op.d)

\* The structures of SpecTree are well-formed.
TreeWellFormed == WellFormed(Heap)

\* C12: after every call that returns, no two distinct children of one node
\* have the same name; Add(x) and Make(.. x ..) with valid names return the
\* already-exists error whenever a child of the receiver is named x.
C12_SiblingNames ==
  Returned =>
    /\ I2(Heap)
    /\ (op.kind \in {"Add", "Make"}
          /\ (\A i \in 1..Len(op.names) : op.names[i] \notin {"", "/"})
          /\ \E j \in 1..Len(op.names) : \E k \in Names :
               /\ Found(pre, op.d, k)
               /\ pre.name[Child(pre, op.d, k)] = op.names[j]) =>
         op.ret = ErrExists

\* C15: Add(x) returns the invalid-name error for "" and "/" and the
\* already-exists error for a key of the map, and changes nothing then;
\* otherwise it returns a new node named x with the receiver as parent and no
\* children, which Child(x) returns; the map has one entry more and every
\* earlier entry is as before.
C15_Add ==
  op.kind = "Add" =>
    LET d == op.d
        x == op.names[1]
    IN IF x \in {"", "/"} THEN op.ret = ErrInvalidName /\ Heap = pre
       ELSE IF Found(pre, d, x) THEN op.ret = ErrExists /\ Heap = pre
       ELSE /\ op.ret = RetNil
            /\ op.node \in AllNodes(Heap) \ AllNodes(pre)
            /\ name[op.node] = x
            /\ parent[op.node] = d
            /\ Size(Heap, op.node) = 0
            /\ Child(Heap, d, x) = op.node
            /\ Size(Heap, d) = Size(pre, d) + 1
            /\ \A k \in Names :
                 Found(pre, d, k) => Child(Heap, d, k) = Child(pre, d, k)
            /\ \A c \in AllNodes(pre) :
                 Child(pre, d, pre.name[c]) = c => Child(Heap, d, name[c]) = c

\* Add created a child beside an earlier one.
C15_Witness ==
  /\ op.kind = "Add" /\ op.ret = RetNil
  /\ Size(pre, op.d) > 0

\* ---------------------------------------------------------------- queries
\* A query is called: it counts for no bound, since it changes no Dirent.
Asking ==
  /\ Running
  /\ pre' = Heap
  /\ UNCHANGED <<name, parent, children, calls>>

\* The delimiters given to PathDelim.
Delims == {"/", "a"}

\* sort.Strings on a set of distinct strings.
RECURSIVE SortStrings(_)
SortStrings(K) ==
  IF K = {} THEN <<>>
  ELSE LET least == CHOOSE k \in K : \A k2 \in K : Rank(k) <= Rank(k2)
       IN <<least>> \o SortStrings(K \ {least})

\* d.List()
ListOn(h, d) == IF Size(h, d) = 0 THEN <<>> ELSE SortStrings(Keys(h, d))

List(d) ==
  /\ Asking
  /\ op' = CallList("List", d, <<>>, RetNil, "", ListOn(Heap, d))

\* The first loop of PathDelim: the names from p up to the root, after parts.
RECURSIVE PathParts(_, _, _, _)
PathParts(h, p, parts, fuel) ==
  IF p = Nil THEN [done |-> TRUE, parts |-> parts]
  ELSE IF fuel = 0 THEN [done |-> FALSE, parts |-> parts]
  ELSE PathParts(h, h.parent[p], Append(parts, h.name[p]), fuel - 1)

\* The second loop of PathDelim.
Reverse(s) == [i \in 1..Len(s) |-> s[Len(s) + 1 - i]]

\* d.PathDelim(delim)
PathDelimOn(h, d, delim) ==
  LET up == PathParts(h, h.parent[d], <<h.name[d]>>, Len(h.name)) IN
  IF ~up.done THEN [ret |-> Diverges, out |-> ""]
  ELSE LET parts == Reverse(up.parts)
           shown == IF parts[1] = delim THEN [parts EXCEPT ![1] = ""]
                    ELSE parts
       IN [ret |-> RetNil, out |-> Join(shown, delim)]

\* d.Path()
PathOn(h, d) == PathDelimOn(h, d, "/")

PathDelim(d, delim) ==
  /\ Asking
  /\ LET r == PathDelimOn(Heap, d, delim) IN
     op' = CallList("PathDelim", d, <<delim>>, r.ret, r.out, <<>>)

\* d.ForParent(f), for an f that returns false at its stop-th call (never,
\* for stop = 0): the nodes f was called with.
RECURSIVE ForParentLoop(_, _, _, _, _)
ForParentLoop(h, p, stop, seen, fuel) ==
  IF p = Nil THEN [ret |-> RetNil, list |-> seen]
  ELSE IF Len(seen) + 1 = stop THEN [ret |-> RetNil, list |-> Append(seen, p)]
  ELSE IF fuel = 0 THEN [ret |-> Diverges, list |-> seen]
  ELSE ForParentLoop(h, h.parent[p], stop, Append(seen, p), fuel - 1)

ForParentOn(h, d, stop) ==
  ForParentLoop(h, h.parent[d], stop, <<>>, Len(h.name))

ForParent(d, stop) ==
  /\ Asking
  /\ LET r == ForParentOn(Heap, d, stop) IN
     op' = CallList("ForParent", d, <<>>, r.ret, "", r.list)

\* The orders in which a range statement can walk the map of each node: one
\* sequence of the node's keys per node.
KeyOrders(h, d) ==
  {s \in [1..Cardinality(Keys(h, d)) -> Keys(h, d)] :
     \A i, j \in 1..Cardinality(Keys(h, d)) : i # j => s[i] # s[j]}

RECURSIVE OrdersUpTo(_, _)
OrdersUpTo(h, n) ==
  IF n = 0 THEN {<<>>}
  ELSE {Append(ord, s) : ord \in OrdersUpTo(h, n - 1), s \in KeyOrders(h, n)}

RangeOrders(h) == OrdersUpTo(h, Len(h.name))

\* for _, ch = range node.children { nodes.Add(ch) }: what the queue gains,
\* each entry with its distance from the receiver. seen in the loops below
\* is the nodes taken off the queue so far.
Range(h, node, ord, depth) ==
  [i \in 1..Len(ord[node]) |->
     [n |-> Child(h, node, ord[node][i]), depth |-> depth + 1]]

\* The loop of Find over the queue. An entry farther from the receiver than
\* there are nodes was reached through a cycle: every node in reach has been
\* tried by then, and the queue never empties.
RECURSIVE FindLoop(_, _, _, _, _)
FindLoop(h, x, ord, queue, seen) ==
  IF Len(queue) = 0 THEN [ret |-> RetNil, node |-> Nil, list |-> seen]
  ELSE LET node == Head(queue).n IN
       IF Found(h, node, x)
       THEN [ret |-> RetNil, node |-> Child(h, node, x),
             list |-> Append(seen, node)]
       ELSE IF Head(queue).depth > Len(h.name)
            THEN [ret |-> Diverges, node |-> Nil, list |-> seen]
       ELSE FindLoop(h, x, ord,
                     Tail(queue) \o Range(h, node, ord, Head(queue).depth),
                     Append(seen, node))

\* Find that takes the children of a node before the node's siblings.
RECURSIVE FindStackLoop(_, _, _, _, _)
FindStackLoop(h, x, ord, queue, seen) ==
  IF Len(queue) = 0 THEN [ret |-> RetNil, node |-> Nil, list |-> seen]
  ELSE LET node == Head(queue).n IN
       IF Found(h, node, x)
       THEN [ret |-> RetNil, node |-> Child(h, node, x),
             list |-> Append(seen, node)]
       ELSE IF Head(queue).depth > Len(h.name)
            THEN [ret |-> Diverges, node |-> Nil, list |-> seen]
       ELSE FindStackLoop(h, x, ord,
                          Range(h, node, ord, Head(queue).depth) \o Tail(queue),
                          Append(seen, node))

FindDepthFirst(h, d, x, ord) ==
  FindStackLoop(h, x, ord, <<[n |-> d, depth |-> 0]>>, <<>>)

\* d.Find(x)
FindOn(h, d, x, ord) ==
  FindLoop(h, x, ord, <<[n |-> d, depth |-> 0]>>, <<>>)

Find(d, x, ord) ==
  /\ Asking
  /\ LET r == FindOn(Heap, d, x, ord) IN
     op' = [CallList("Find", d, <<x>>, r.ret, "", r.list)
              EXCEPT !.node = r.node]

\* ------------------------------------------------- the query specifications
\* The last call was a query.
Queries ==
  {"List", "PathDelim", "ForParent", "Find", "Tree", "Sort", "SortReverse"}
Asked == op.kind \in Queries

\* Any calls of the operations, and then one query on what they built: a
\* query is the last call of a run, since it leaves every Dirent as it was.
NextQuery ==
  \/ ~Asked /\ Next
  \/ ~Asked /\ \E d \in Held(Heap) : List(d)
  \/ ~Asked /\ \E d \in Held(Heap), delim \in Delims : PathDelim(d, delim)
  \/ ~Asked /\ \E d \in Held(Heap), stop \in 0..Len(name) : ForParent(d, stop)
  \/ ~Asked /\ \E d \in Held(Heap), x \in OpNames, ord \in RangeOrders(Heap) :
                 Find(d, x, ord)
  \/ ~Asked /\ \E d \in Held(Heap), tie \in TieOrders(Heap) : Tree(d, tie)

SpecQuery == Init /\ [][NextQuery]_vars

\* Trees of one root, grown by Add, and searched by Find.
FindRootNames == {"a"}
FindNames == {"a", "b", "c"}

InitFind ==
  \E nm \in FindRootNames :
    /\ name = <<nm>>
    /\ parent = <<Nil>>
    /\ children = <<NilMap>>
    /\ op = Call("New", Nil, Nil, <<nm>>, RetNil, 1)
    /\ pre = [name |-> <<>>, parent |-> <<>>, children |-> <<>>]
    /\ calls = 0

\* The trees are grown level by level and name by name: a child is added to
\* a node made after the parent of the newest node, or to that parent under
\* a name after the newest node's. The numbering of the nodes apart,
\* every tree of the names is grown. Find is the last call of
\* a run.
NextFind ==
  \/ ~Asked /\ \E d \in AllNodes(Heap), nm \in FindNames :
       /\ \/ d > parent[Len(name)]
          \/ d = parent[Len(name)] /\ Rank(nm) > Rank(name[Len(name)])
       /\ Add(d, nm, MaxFindNodes, MaxFindCalls)
  \/ ~Asked /\ \E d \in AllNodes(Heap), x \in FindNames,
                   ord \in RangeOrders(Heap) : Find(d, x, ord)

SpecFind == InitFind /\ [][NextFind]_vars

\* The proper ancestors of n, through the parent references.
RECURSIVE Ancestors(_, _, _)
Ancestors(h, n, fuel) ==
  IF h.parent[n] = Nil \/ fuel = 0 THEN {}
  ELSE {h.parent[n]} \cup Ancestors(h, h.parent[n], fuel - 1)

\* The proper descendants of r on a tree with I1-I4, where the children maps
\* and the parent references agree: the nodes with r among their ancestors.
Under(h, r) == {m \in AllNodes(h) : r \in Ancestors(h, m, Len(h.name))}

\* The number of parent references from n up to its ancestor d.
RECURSIVE DepthBelow(_, _, _, _)
DepthBelow(h, d, n, fuel) ==
  IF n = d \/ n = Nil \/ fuel = 0 THEN 0
  ELSE 1 + DepthBelow(h, d, h.parent[n], fuel - 1)

\* C11: on a tree with I1-I4, r.Find(x) returns absent exactly when no proper
\* descendant of r is named x; otherwise it returns a proper descendant named
\* x of the least depth below r among them; it never returns r.
C11_Find ==
  (op.kind = "Find" /\ WellFormed(Heap)) =>
    LET r == op.d
        x == op.names[1]
        n == Len(name)
        matches == {m \in Under(Heap, r) : name[m] = x}
    IN /\ op.ret = RetNil
       /\ (op.node = Nil) <=> (matches = {})
       /\ op.node # Nil =>
            /\ op.node \in matches
            /\ \A m \in matches :
                 DepthBelow(Heap, r, op.node, n) <= DepthBelow(Heap, r, m, n)
       /\ op.node # r

\* Find went by a sibling whose subtree has a node named x farther down than
\* the one it returned.
C11_Witness ==
  /\ op.kind = "Find" /\ op.node # Nil
  /\ Len(op.list) > 2
  /\ \E m \in Under(Heap, op.d) :
       /\ name[m] = op.names[1]
       /\ DepthBelow(Heap, op.d, m, Len(name)) >
            DepthBelow(Heap, op.d, op.node, Len(name))
       /\ op.list[2] \in Ancestors(Heap, m, Len(name))

\* C13: List() returns a strictly ascending sequence of exactly the names of
\* the nodes whose parent is the receiver, as long as Size(); it is empty
\* when the receiver has no children.
C13_List ==
  op.kind = "List" =>
    LET L == op.list
        kids == {n \in AllNodes(Heap) : parent[n] = op.d}
    IN /\ \A i \in 1..Len(L) - 1 : Rank(L[i]) < Rank(L[i + 1])
       /\ {L[i] : i \in 1..Len(L)} = {name[n] : n \in kids}
       /\ Len(L) = Size(Heap, op.d)
       /\ (kids = {} => L = <<>>)

\* The path of n from the names on its parent chain, root first.
RECURSIVE RefPath(_, _, _, _)
RefPath(h, n, delim, fuel) ==
  IF h.parent[n] = Nil THEN (IF h.name[n] = delim THEN "" ELSE h.name[n])
  ELSE IF fuel = 0 THEN h.name[n]
  ELSE RefPath(h, h.parent[n], delim, fuel - 1) \o delim \o h.name[n]

\* What the path of n has after the path of its ancestor d.
RECURSIVE Below(_, _, _, _, _)
Below(h, d, n, delim, fuel) ==
  IF n = d \/ n = Nil \/ fuel = 0 THEN ""
  ELSE Below(h, d, h.parent[n], delim, fuel - 1) \o delim \o h.name[n]

\* C14: PathDelim(delim) is the names from the root to the node joined by
\* delim, with an empty root segment when the root is named delim, so that
\* one delimiter precedes the first name below the root; Path() is
\* PathDelim("/"); after a successful d.Move(dst) the path of d is the path
\* of dst, delim and the name of d, and the path of every node below d has
\* the same part after the path of d as before.
C14_Path ==
  /\ op.kind = "PathDelim" =>
       /\ op.ret = RetNil
       /\ op.out = RefPath(Heap, op.d, op.names[1], Len(name))
       /\ (op.names[1] = "/" => PathOn(Heap, op.d).out = op.out)
  /\ (op.kind = "Move" /\ op.ret = RetNil) =>
       \A delim \in Delims :
         LET d == op.d
             now == PathDelimOn(Heap, d, delim)
         IN /\ now.ret = RetNil
            /\ now.out = PathDelimOn(Heap, op.dst, delim).out
                           \o delim \o name[d]
            /\ \A m \in {m \in AllNodes(pre) :
                           d \in Ancestors(pre, m, Len(pre.name))} :
                 LET rest == Below(pre, d, m, delim, Len(pre.name)) IN
                 /\ PathDelimOn(pre, m, delim).out
                      = PathDelimOn(pre, d, delim).out \o rest
                 /\ PathDelimOn(Heap, m, delim).out = now.out \o rest

\* C19: every traversal ends: Find, PathDelim, ForParent and Tree return, and
\* Find and ForParent take no node twice.
C19_Terminates ==
  op.kind \in {"Find", "PathDelim", "ForParent", "Tree"} =>
    /\ op.ret # Diverges
    /\ op.kind \in {"Find", "ForParent"} =>
         \A i, j \in 1..Len(op.list) : i # j => op.list[i] # op.list[j]

\* Trees of one root, grown by Add, with nodes renamed, and rendered by Tree.
NextRender ==
  \/ ~Asked /\ \E d \in Held(Heap), nm \in TreeNames :
                 Add(d, nm, MaxTreeNodes, MaxTreeCalls)
  \/ ~Asked /\ \E d \in Held(Heap), nm \in TreeNames : Rename(d, nm)
  \/ ~Asked /\ \E d \in Held(Heap), tie \in TieOrders(Heap) : Tree(d, tie)

SpecRender == InitTree /\ [][NextRender]_vars

\* C16: Tree() changes no name, parent or children, and every call of Tree()
\* on the same node of the same structure returns the same string, whatever
\* order the children come in.
C16_TreePure ==
  op.kind = "Tree" =>
    /\ Heap = pre
    /\ \A tie \in TieOrders(Heap) :
         LET again == TreeOn(Heap, op.d, tie) IN
         again.ret = op.ret /\ again.out = op.out

\* n has a later sibling: a node of the same parent with a greater display
\* name.
LaterSibling(h, n) ==
  \E s \in Held(h) : h.parent[s] = h.parent[n] /\ Less(h, n, s)

\* C18: in the loop of Tree() a node is written with "|-- " when it has a
\* later sibling and with the end connector when it is the last sibling, also
\* right after the sentinel of an earlier sibling's subtree was popped; the
\* segment pushed for a node with children is "|   " exactly when the node
\* has a later sibling.
C18_Connectors ==
  (op.kind = "Tree" /\ op.ret = RetNil) =>
    \A i \in 1..Len(op.list) :
      LET e == op.list[i]
          later == LaterSibling(Heap, e.node)
      IN /\ e.pfx = (IF later THEN linkPfx ELSE endlPfx)
         /\ Size(Heap, e.node) > 0 => ((e.seg = contPfx) <=> later)

\* ------------------------------------------------------------- dirsort.go
\* The names of the Dirents that are sorted.
SortNames == {"", ".", "/", "a"}

\* The slices given to Sort and SortReverse: distinct nodes in any order.
Slices(h) ==
  UNION {{s \in [1..n -> AllNodes(h)] :
            \A i, j \in 1..n : i # j => s[i] # s[j]} : n \in 0..Len(h.name)}

\* The tie orders of a slice: any, when two of its nodes have one display
\* name.
SliceTies(h, s) ==
  IF \E i, j \in 1..Len(s) : i # j /\ String(h, s[i]) = String(h, s[j])
  THEN {t \in [AllNodes(h) -> AllNodes(h)] :
          \A i, j \in AllNodes(h) : i # j => t[i] # t[j]}
  ELSE {Identity(h)}

\* sort.Sort on the nodes S: in the order of Less, or of sort.Reverse of it,
\* which swaps the arguments of Less.
RECURSIVE SortBy(_, _, _, _)
SortBy(h, S, tie, reverse) ==
  IF S = {} THEN <<>>
  ELSE LET less(a, b) == IF reverse THEN Less(h, b, a) ELSE Less(h, a, b)
           first == CHOOSE n \in S : \A m \in S :
                      \/ less(n, m)
                      \/ ~less(m, n) /\ Place(tie, n) <= Place(tie, m)
       IN <<first>> \o SortBy(h, S \ {first}, tie, reverse)

Elems(s) == {s[i] : i \in 1..Len(s)}

\* Sort(dirents)
SortOn(h, s, tie) == SortBy(h, Elems(s), tie, FALSE)

\* SortReverse(dirents)
SortReverseOn(h, s, tie) == SortBy(h, Elems(s), tie, TRUE)

\* A call of Sort or SortReverse: the slice before and after.
CallSort(kind, s, sorted) ==
  [CallList(kind, Nil, <<>>, RetNil, "", sorted) EXCEPT !.names = s]

Sort(s, tie) ==
  /\ op' = CallSort("Sort", s, SortOn(Heap, s, tie))
  /\ UNCHANGED <<name, parent, children, pre, calls>>

DirSortReverse(s, tie) ==
  /\ op' = CallSort("SortReverse", s, SortReverseOn(Heap, s, tie))
  /\ UNCHANGED <<name, parent, children, pre, calls>>

\* Dirents of any names, made by New, and one slice of them sorted.
InitSort ==
  /\ name \in [1..MaxSortNodes -> SortNames]
  /\ parent = [i \in 1..MaxSortNodes |-> Nil]
  /\ children = [i \in 1..MaxSortNodes |-> NilMap]
  /\ op = Call("New", Nil, Nil, <<name[MaxSortNodes]>>, RetNil, MaxSortNodes)
  /\ pre = [name |-> <<>>, parent |-> <<>>, children |-> <<>>]
  /\ calls = 0

NextSort ==
  \/ ~Asked /\ \E s \in Slices(Heap) : \E tie \in SliceTies(Heap, s) :
                 Sort(s, tie)
  \/ ~Asked /\ \E s \in Slices(Heap) : \E tie \in SliceTies(Heap, s) :
                 DirSortReverse(s, tie)

SpecSort == InitSort /\ [][NextSort]_vars

\* The display names of the nodes of s are pairwise distinct.
DistinctDisplay(h, s) ==
  \A i, j \in 1..Len(s) : i # j => String(h, s[i]) # String(h, s[j])

\* C17: on a slice of nodes with pairwise distinct display names, Sort leaves
\* the nodes ascending and SortReverse descending by display name ("/" for
\* the empty name), each a permutation of the slice given, and the outcome of
\* one is the reverse of the outcome of the other.
C17_Sort ==
  (op.kind \in {"Sort", "SortReverse"} /\ DistinctDisplay(Heap, op.names)) =>
    LET given == op.names
        s == op.list
        shown(n) == IF name[n] = "" THEN "/" ELSE name[n]
    IN /\ Len(s) = Len(given) /\ Elems(s) = Elems(given)
       /\ \A i, j \in 1..Len(s) : i # j => s[i] # s[j]
       /\ op.kind = "Sort" =>
            /\ \A i \in 1..Len(s) - 1 : Rank(shown(s[i])) < Rank(shown(s[i + 1]))
            /\ \A tie \in SliceTies(Heap, given) :
                 s = Reverse(SortReverseOn(Heap, given, tie))
       /\ op.kind = "SortReverse" =>
            /\ \A i \in 1..Len(s) - 1 : Rank(shown(s[i])) > Rank(shown(s[i + 1]))
            /\ \A tie \in SliceTies(Heap, given) :
                 s = Reverse(SortOn(Heap, given, tie))

\* SortReverse moved a node with the empty name between "a" and ".".
C17_Witness ==
  /\ op.kind = "SortReverse"
  /\ Len(op.list) = 3
  /\ op.list # op.names
  /\ name[op.list[1]] = "a" /\ name[op.list[2]] = "" /\ name[op.list[3]] = "."
====
